---- MODULE Spec2Model ----
(***************************************************************************)
(* Model of double_calendar_monitor.py: the option-symbol encoder, the     *)
(* calendar valuation, the per-leg profit alert and the Streamlit script   *)
(* run (sidebar forms, position loop, adjustment form, end-of-run persist  *)
(* and timed rerun) over the Supabase `positions` table.                   *)
(*                                                                         *)
(* Numbers.  Prices and strikes are Python floats entered with two         *)
(* decimals; the model holds them as integers in cents.  A percentage is   *)
(* held as an exact fraction [n, d] with d > 0 and compared by cross       *)
(* multiplication.  The one place where binary floating point changes a    *)
(* result on two-decimal inputs, int(strike * 1000), is modelled by        *)
(* IntStrikeTimes1000.                                                     *)
(*                                                                         *)
(* Strings that the code indexes or filters (ticker, option type, date,    *)
(* symbol) are sequences of one-character strings.                         *)
(***************************************************************************)
EXTENDS Integers, Sequences, FiniteSets, TLC

VARIABLES
    \* ---- the script run (specification Spec) ----
    MARKET_DATA_TOKEN,  \* st.secrets MARKET_DATA_TOKEN is non-empty
    db,                 \* Supabase table positions: ticker -> position_data
    loaded,             \* 'positions' in st.session_state
    positions,          \* st.session_state.positions: ticker -> position_data
    order,              \* iteration order of st.session_state.positions
    adjusting_ticker,   \* st.session_state.adjusting_ticker, <<>> when absent
    pc,                 \* place of the running script
    idx,                \* index of the position loop (line 221)
    event,              \* the widget interaction that started this run
    slept,              \* this run was started by the rerun after the sleep (line 325)
    live_data_list,     \* live_data_list of the position processed last
    outbox,             \* messages handed to send_telegram_message by the last step
    notified,           \* per leg: notified, and not evaluated below its target since
    evaluated,          \* legs rendered (valued and alert-evaluated) in this run
    \* ---- one leg under repeated evaluation (specification SpecEval) ----
    eval_leg,           \* the leg (calendar_data) given to render_calendar_block
    eval_history,       \* its chart history (calendar_history)
    evals,              \* log of the evaluations made so far
    \* ---- calculate_pl_values (specification SpecPL) ----
    pl_in, pl_out,
    \* ---- generate_option_symbol (specification SpecSym) ----
    sym_in, sym_out

runVars  == <<MARKET_DATA_TOKEN, db, loaded, positions, order, adjusting_ticker,
              pc, idx, event, slept, live_data_list, outbox, notified, evaluated>>
evalVars == <<eval_leg, eval_history, evals>>
plVars   == <<pl_in, pl_out>>
symVars  == <<sym_in, sym_out>>
vars     == <<runVars, evalVars, plVars, symVars>>

-----------------------------------------------------------------------------
(* Small helpers of the modelling language (Python built-ins).             *)

Abs(x) == IF x < 0 THEN -x ELSE x

\* dict.get(key, default) on an optional field: <<>> is "key absent".
Get(opt, default) == IF opt = <<>> THEN default ELSE opt[1]

DigitChars == <<"0", "1", "2", "3", "4", "5", "6", "7", "8", "9">>

\* str.isdigit() on one character
IsDigit(c) == \E i \in 1..10 : DigitChars[i] = c

DigitVal(c) == (CHOOSE i \in 1..10 : DigitChars[i] = c) - 1

\* str.upper() on one character, for the letters the option types hold
Upper(c) ==
    CASE c = "p" -> "P"
      [] c = "c" -> "C"
      [] c = "u" -> "U"
      [] c = "t" -> "T"
      [] c = "a" -> "A"
      [] c = "l" -> "L"
      [] OTHER   -> c

UpperStr(s) == [i \in 1..Len(s) |-> Upper(s[i])]

\* decimal digits of a natural number, most significant first
RECURSIVE NatDigits(_)
NatDigits(n) ==
    IF n < 10 THEN <<DigitChars[n + 1]>>
    ELSE NatDigits(n \div 10) \o <<DigitChars[(n % 10) + 1]>>

RECURSIVE Zeros(_)
Zeros(k) == IF k <= 0 THEN <<>> ELSE <<"0">> \o Zeros(k - 1)

\* format(n, "0{w}d"): zero padding to a minimum width, the sign counted in it
ZeroPad(n, w) ==
    IF n < 0
    THEN <<"-">> \o Zeros(w - 1 - Len(NatDigits(-n))) \o NatDigits(-n)
    ELSE Zeros(w - Len(NatDigits(n))) \o NatDigits(n)

\* value of a run of decimal digits
RECURSIVE DigitsNat(_)
DigitsNat(s) ==
    IF s = <<>> THEN 0
    ELSE 10 * DigitsNat(SubSeq(s, 1, Len(s) - 1)) + DigitVal(s[Len(s)])

-----------------------------------------------------------------------------
(* generate_option_symbol                                                  *)

\* datetime.strptime(exp_date, "%Y-%m-%d") on "YYYY-MM-DD"
Strptime(exp_date) ==
    [year  |-> DigitsNat(SubSeq(exp_date, 1, 4)),
     month |-> DigitsNat(SubSeq(exp_date, 6, 7)),
     day   |-> DigitsNat(SubSeq(exp_date, 9, 10))]

\* exp_dt.strftime('%y%m%d')
StrftimeYYMMDD(dt) ==
    ZeroPad(dt.year % 100, 2) \o ZeroPad(dt.month, 2) \o ZeroPad(dt.day, 2)

\* Strikes in cents for which strike * 1000 in IEEE-754 double arithmetic
\* falls just below the integer, so that int() truncates to one less
\* (2.01 * 1000 = 2009.9999999999998).  Only the strikes that the model's
\* inputs can hold are listed.
TruncatingStrikes == {201, 203, 402, 406}

\* int(strike * 1000), strike given in cents
IntStrikeTimes1000(strike) ==
    IF strike \in TruncatingStrikes THEN strike * 10 - 1 ELSE strike * 10

\* ''.join([i for i in ticker if not i.isdigit()])
BaseTicker(ticker) == SelectSeq(ticker, LAMBDA c : ~IsDigit(c))

generate_option_symbol(ticker, exp_date, strike, option_type) ==
    LET exp_dt      == Strptime(exp_date)
        strike_part == ZeroPad(IntStrikeTimes1000(strike), 8)
        base_ticker == BaseTicker(ticker)
    IN  base_ticker \o StrftimeYYMMDD(exp_dt) \o <<Upper(option_type[1])>> \o strike_part

-----------------------------------------------------------------------------
(* calculate_pl_values                                                     *)

\* a percentage as an exact fraction
Frac(n, d) == [n |-> n, d |-> d]

\* z >= t and z < t for a fraction z and an integer t
FracGE(z, t) == z.n >= t * z.d
FracLT(z, t) == z.n < t * z.d

calculate_pl_values(td_price_back, td_price_front, now_price_back, now_price_front) ==
    LET initial_cost  == td_price_back - td_price_front
        current_value == now_price_back - now_price_front
        absolute_pl   == current_value - initial_cost
    IN  IF initial_cost = 0
        THEN [initial_cost |-> 0, absolute_pl |-> 0, z_percent |-> Frac(0, 1)]
        ELSE [initial_cost |-> initial_cost, absolute_pl |-> absolute_pl,
              z_percent |-> Frac(absolute_pl * 100, Abs(initial_cost))]

-----------------------------------------------------------------------------
(* render_calendar_block                                                   *)

\* The history kept per chart is abstracted to its number of entries, which
\* saturates at MaxHist ("MaxHist or more"): nothing but the chart reads the
\* entries themselves.
MaxHist == 1

\* lines 120-123: append unless the last entry carries the current "HH:MM"
\* label.  same_minute stands for calendar_history['ts'][-1] == current_time_str.
AppendHistory(calendar_history, same_minute) ==
    IF calendar_history.n = 0 \/ ~same_minute
    THEN [n |-> IF calendar_history.n < MaxHist THEN calendar_history.n + 1 ELSE MaxHist]
    ELSE calendar_history

\* line 128: the text given to send_telegram_message, by the values it carries
\* (the strike, the profit and the target are printed with two decimals)
AlertMessage(ticker, calendar_data, live_data) ==
    [ticker       |-> ticker,
     cal_type     |-> UpperStr(calendar_data.type),
     strike       |-> calendar_data.strike,
     z_percent    |-> live_data.z_percent,
     alert_target |-> Get(calendar_data.alert_target, 0)]

\* Mutant: level-triggered alert, the alert_sent test of line 126 dropped.
AlertStepLevelTriggered(ticker, calendar_data, live_data) ==
    LET target == Get(calendar_data.alert_target, 0)
    IN  IF target > 0 /\ FracGE(live_data.z_percent, target)
        THEN [calendar_data |-> [calendar_data EXCEPT !.alert_sent = <<TRUE>>],
              sent |-> <<AlertMessage(ticker, calendar_data, live_data)>>]
        ELSE IF target > 0 /\ Get(calendar_data.alert_sent, FALSE)
        THEN [calendar_data |-> [calendar_data EXCEPT !.alert_sent = <<FALSE>>],
              sent |-> <<>>]
        ELSE [calendar_data |-> calendar_data, sent |-> <<>>]

\* Mutant: strict comparison (>) in place of >= on line 126.
AlertStepStrict(ticker, calendar_data, live_data) ==
    LET target == Get(calendar_data.alert_target, 0)
        sent   == Get(calendar_data.alert_sent, FALSE)
        z      == live_data.z_percent
    IN  IF target > 0 /\ z.n > target * z.d /\ ~sent
        THEN [calendar_data |-> [calendar_data EXCEPT !.alert_sent = <<TRUE>>],
              sent |-> <<AlertMessage(ticker, calendar_data, live_data)>>]
        ELSE IF target > 0 /\ FracLT(z, target) /\ sent
        THEN [calendar_data |-> [calendar_data EXCEPT !.alert_sent = <<FALSE>>],
              sent |-> <<>>]
        ELSE [calendar_data |-> calendar_data, sent |-> <<>>]

\* Mutant: the re-arming branch of lines 131-132 left out.
AlertStepNoRearm(ticker, calendar_data, live_data) ==
    LET target == Get(calendar_data.alert_target, 0)
        sent   == Get(calendar_data.alert_sent, FALSE)
    IN  IF target > 0 /\ FracGE(live_data.z_percent, target) /\ ~sent
        THEN [calendar_data |-> [calendar_data EXCEPT !.alert_sent = <<TRUE>>],
              sent |-> <<AlertMessage(ticker, calendar_data, live_data)>>]
        ELSE [calendar_data |-> calendar_data, sent |-> <<>>]

\* Mutant: the guard of line 125 as >= 0, so that a zero target alerts.
AlertStepZeroTarget(ticker, calendar_data, live_data) ==
    LET target == Get(calendar_data.alert_target, 0)
        sent   == Get(calendar_data.alert_sent, FALSE)
    IN  IF target >= 0 /\ FracGE(live_data.z_percent, target) /\ ~sent
        THEN [calendar_data |-> [calendar_data EXCEPT !.alert_sent = <<TRUE>>],
              sent |-> <<AlertMessage(ticker, calendar_data, live_data)>>]
        ELSE IF target >= 0 /\ FracLT(live_data.z_percent, target) /\ sent
        THEN [calendar_data |-> [calendar_data EXCEPT !.alert_sent = <<FALSE>>],
              sent |-> <<>>]
        ELSE [calendar_data |-> calendar_data, sent |-> <<>>]

\* lines 125-132: the alert of one leg.  Gives the leg as the call leaves it
\* and the messages handed to send_telegram_message.
AlertStep(ticker, calendar_data, live_data) ==
    LET target == Get(calendar_data.alert_target, 0)
        sent   == Get(calendar_data.alert_sent, FALSE)
    IN  IF target > 0
        THEN IF FracGE(live_data.z_percent, target) /\ ~sent
             THEN [calendar_data |-> [calendar_data EXCEPT !.alert_sent = <<TRUE>>],
                   sent |-> <<AlertMessage(ticker, calendar_data, live_data)>>]
             ELSE IF FracLT(live_data.z_percent, target) /\ sent
             THEN [calendar_data |-> [calendar_data EXCEPT !.alert_sent = <<FALSE>>],
                   sent |-> <<>>]
             ELSE [calendar_data |-> calendar_data, sent |-> <<>>]
        ELSE [calendar_data |-> calendar_data, sent |-> <<>>]

\* The metrics and the chart (lines 134-145) only display.
render_calendar_block(ticker, calendar_data, live_data, calendar_history, same_minute) ==
    LET a == AlertStep(ticker, calendar_data, live_data)
    IN  [calendar_data    |-> a.calendar_data,
         calendar_history |-> AppendHistory(calendar_history, same_minute),
         sent             |-> a.sent]

\* a leg as the forms store it (lines 207, 208, 307-311); the two alert
\* fields are optional because the code reads them with .get
Leg(type, kind, num, strike, td_front, td_back, target, sent, exp_front, exp_back) ==
    [type           |-> type,
     display_name   |-> <<UpperStr(type), kind, num>>,
     strike         |-> strike,
     td_price_front |-> td_front,
     td_price_back  |-> td_back,
     alert_target   |-> target,
     alert_sent     |-> sent,
     expirations    |-> [front |-> exp_front, back |-> exp_back]]

PutType  == <<"p", "u", "t">>
CallType == <<"c", "a", "l", "l">>

-----------------------------------------------------------------------------
(* Values that stand idle in the specifications that do not use them.      *)

IdleRun ==
    /\ MARKET_DATA_TOKEN = FALSE /\ db = <<>> /\ loaded = FALSE
    /\ positions = <<>> /\ order = <<>> /\ adjusting_ticker = <<>>
    /\ pc = "idle" /\ idx = 0 /\ event = <<"none">> /\ slept = FALSE
    /\ live_data_list = <<>>
    /\ outbox = <<>> /\ notified = <<>> /\ evaluated = {}
IdleEval == eval_leg = <<>> /\ eval_history = <<>> /\ evals = <<>>
IdlePL   == pl_in = <<>> /\ pl_out = <<>>
IdleSym  == sym_in = <<>> /\ sym_out = <<>>

-----------------------------------------------------------------------------
(* SpecSym: generate_option_symbol applied to one input.                   *)

Str_PETR4  == <<"P", "E", "T", "R", "4">>
Str_B3SA3  == <<"B", "3", "S", "A", "3">>
Str_SANB11 == <<"S", "A", "N", "B", "1", "1">>
Str_AAPL   == <<"A", "A", "P", "L">>
SymTickers == {Str_PETR4, Str_B3SA3, Str_SANB11, Str_AAPL}

Date_2024_03_15 == <<"2", "0", "2", "4", "-", "0", "3", "-", "1", "5">>
Date_2024_04_19 == <<"2", "0", "2", "4", "-", "0", "4", "-", "1", "9">>
Date_2031_12_05 == <<"2", "0", "3", "1", "-", "1", "2", "-", "0", "5">>
SymDates == {Date_2024_03_15, Date_2024_04_19, Date_2031_12_05}

\* strikes in cents: 35.50, 2.01, 0.00, 1234.56, -1.50 (the number input has no
\* minimum) and 100000.00 (more than eight digits of thousandths)
SymStrikes == {3550, 201, 0, 123456, -150, 10000000}

SymInit ==
    /\ sym_in \in [ticker : SymTickers, exp_date : SymDates,
                   strike : SymStrikes, option_type : {PutType, CallType}]
    /\ sym_out = <<>>
    /\ IdleRun /\ IdleEval /\ IdlePL

Encode ==
    /\ sym_out = <<>>
    /\ sym_out' = generate_option_symbol(sym_in.ticker, sym_in.exp_date,
                                         sym_in.strike, sym_in.option_type)
    /\ UNCHANGED <<sym_in, runVars, evalVars, plVars>>

SymNext == Encode

SpecSym == SymInit /\ [][SymNext]_vars

-----------------------------------------------------------------------------
(* SpecPL: calculate_pl_values applied to one input.                       *)

\* prices in cents
PLPrices == {0, 150, 200, 500, 600}

PLInit ==
    /\ pl_in \in [td_price_back : PLPrices, td_price_front : PLPrices,
                  now_price_back : PLPrices, now_price_front : PLPrices]
    /\ pl_out = <<>>
    /\ IdleRun /\ IdleEval /\ IdleSym

Value ==
    /\ pl_out = <<>>
    /\ pl_out' = <<calculate_pl_values(pl_in.td_price_back, pl_in.td_price_front,
                                       pl_in.now_price_back, pl_in.now_price_front)>>
    /\ UNCHANGED <<pl_in, runVars, evalVars, symVars>>

PLNext == Value

SpecPL == PLInit /\ [][PLNext]_vars

-----------------------------------------------------------------------------
(* SpecEval: one leg evaluated again and again by render_calendar_block.   *)

MaxEvals == 5

\* profit percentages offered to the evaluation
ZValues == {10, 15, 20, 22, 25, 30}

\* alert_target as stored: absent, disabled (0), negative or 20 %
EvalTargets == {<<>>, <<0>>, <<-5>>, <<20>>}
EvalSents   == {<<>>, <<FALSE>>, <<TRUE>>}

EvalInit ==
    /\ \E type \in {PutType, CallType}, target \in EvalTargets, sent \in EvalSents :
          eval_leg = Leg(type, "Original", 0, 3550, 200, 500, target, sent,
                              Date_2024_03_15, Date_2024_04_19)
    /\ eval_history = [n |-> 0]
    /\ evals = <<>>
    /\ IdleRun /\ IdlePL /\ IdleSym

Evaluate ==
    /\ Len(evals) < MaxEvals
    /\ \E z \in ZValues, same_minute \in BOOLEAN :
          LET live_data == [z_percent |-> Frac(z, 1)]
              r == render_calendar_block(Str_PETR4, eval_leg, live_data,
                                         eval_history, same_minute)
          IN  /\ eval_leg' = r.calendar_data
              /\ eval_history' = r.calendar_history
              /\ evals' = Append(evals, [z      |-> z,
                                         before |-> eval_leg.alert_sent,
                                         after  |-> r.calendar_data.alert_sent,
                                         sent   |-> r.sent])
    /\ UNCHANGED <<runVars, plVars, symVars>>

EvalNext == Evaluate

SpecEval == EvalInit /\ [][EvalNext]_vars

-----------------------------------------------------------------------------
(* Spec: the script run.                                                   *)
(*                                                                         *)
(* Streamlit runs the script from its first line on a page load, on every  *)
(* widget interaction and on st.rerun().  The run is modelled section by   *)
(* section (pc): sidebar ("top"), one step per position of the loop of     *)
(* line 221 ("loop"), adjustment form ("form"), end-of-run persist         *)
(* ("persist"), and the sleep of line 324 ("sleep"), during which the      *)
(* timer or a widget interaction starts the next run.                      *)
(*                                                                         *)
(* The store is taken to answer: the except branches of lines 49, 56, 62   *)
(* and 68 only report.  ticker is the key of the table, so the insert of   *)
(* a ticker that has a row raises and changes nothing.  The rows come back *)
(* from select() in any order.                                             *)
(*                                                                         *)
(* get_option_data is cached per symbol for 290 s (line 83).  The model    *)
(* lets every call answer anew, which includes every answer a cache can    *)
(* give.                                                                   *)

MaxAdj == 1

Tickers == {Str_PETR4, Str_B3SA3}

EmptyMap == [t \in {} |-> <<>>]

\* What the request of lines 89-91 can end in is an answer
\* [kind, s, last, status]: a 2xx answer ("ok") with its s field and last
\* prices, an HTTP error status ("http_error"), or a transport failure
\* ("connection_error").

\* Mutant: the except clause for RequestException (line 97) missing, so that a
\* transport failure leaves the function as an exception.
GetOptionDataUncaught(token, option_symbol, answer) ==
    IF ~token \/ option_symbol = <<>>
    THEN [raised |-> FALSE, success |-> FALSE, data |-> [last |-> <<>>]]
    ELSE IF answer.kind = "ok" /\ answer.s = "ok"
    THEN [raised |-> FALSE, success |-> TRUE, data |-> [last |-> answer.last]]
    ELSE [raised |-> answer.kind = "connection_error", success |-> FALSE,
          data |-> [last |-> <<>>]]

\* get_option_data: (success, data) or (False, message).  The message is only
\* displayed, so a failure keeps no data.  raised tells an exception that
\* leaves the function: every path of lines 85-98 returns, so it is FALSE.
get_option_data(token, option_symbol, answer) ==
    IF ~token \/ option_symbol = <<>>
    THEN [raised |-> FALSE, success |-> FALSE, data |-> [last |-> <<>>]]
    ELSE IF answer.kind = "ok"
    THEN IF answer.s = "ok"
         THEN [raised |-> FALSE, success |-> TRUE, data |-> [last |-> answer.last]]
         ELSE [raised |-> FALSE, success |-> FALSE, data |-> [last |-> <<>>]]
    ELSE IF answer.kind = "http_error"
    THEN [raised |-> FALSE, success |-> FALSE, data |-> [last |-> <<>>]]
    ELSE [raised |-> FALSE, success |-> FALSE, data |-> [last |-> <<>>]]

\* lines 230-231: api_data['last'][0] if success and api_data.get('last') else 0
NowPrice(result) ==
    IF result.success /\ result.data.last # <<>> THEN result.data.last[1] ELSE 0

\* lines 226-227: the two symbols of a leg
Symbols(ticker, cal_data) ==
    [front |-> generate_option_symbol(ticker, cal_data.expirations.front,
                                      cal_data.strike, cal_data.type),
     back  |-> generate_option_symbol(ticker, cal_data.expirations.back,
                                      cal_data.strike, cal_data.type)]

\* lines 228-233: the live data of one leg, from the answers to its two
\* requests.  ok_front and ok_back record success_front and success_back,
\* which the code drops after line 231.
LiveData(token, symbols, cal_data, answers) ==
    LET front == get_option_data(token, symbols.front, answers.front)
        back  == get_option_data(token, symbols.back, answers.back)
        now_price_front == NowPrice(front)
        now_price_back  == NowPrice(back)
        pl_info == calculate_pl_values(cal_data.td_price_back, cal_data.td_price_front,
                                       now_price_back, now_price_front)
    IN  [now_price_front |-> now_price_front,
         now_price_back  |-> now_price_back,
         back_api_data   |-> IF back.success THEN <<back.data>> ELSE <<>>,
         initial_cost    |-> pl_info.initial_cost,
         absolute_pl     |-> pl_info.absolute_pl,
         z_percent       |-> pl_info.z_percent,
         ok_front        |-> front.success,
         ok_back         |-> back.success,
         raised          |-> front.raised \/ back.raised]

\* line 223
AllCalendars(data) == <<data.put_original, data.call_original>> \o data.adjustments

\* load_positions_from_db: the rows as a dict; its iteration order is the
\* order of the rows
RowOrders(S) ==
    {q \in [1..Cardinality(S) -> S] : \A i, j \in 1..Cardinality(S) : q[i] = q[j] => i = j}

\* add_position_to_db
add_position_to_db(table, ticker, position_data) ==
    IF ticker \in DOMAIN table THEN table
    ELSE [t \in DOMAIN table \cup {ticker} |->
             IF t = ticker THEN position_data ELSE table[t]]

\* update_position_in_db: update ... eq('ticker', ticker)
update_position_in_db(table, ticker, position_data) ==
    IF ticker \in DOMAIN table THEN [table EXCEPT ![ticker] = position_data] ELSE table

\* delete_position_from_db
delete_position_from_db(table, ticker) ==
    [t \in DOMAIN table \ {ticker} |-> table[t]]

\* lines 320-321: every session position written to its row
PersistAll(table, session) ==
    [t \in DOMAIN table |-> IF t \in DOMAIN session THEN session[t] ELSE table[t]]

EmptyHistory == [n |-> 0]

\* lines 206-212.  fad_date and td_back_vol are only displayed and left out.
NewPosition(form) ==
    [put_original  |-> Leg(PutType, "Original", 0, form.put.strike, form.put.td_front,
                           form.put.td_back, <<form.put.target>>, <<FALSE>>,
                           Date_2024_03_15, Date_2024_04_19),
     call_original |-> Leg(CallType, "Original", 0, form.call.strike, form.call.td_front,
                           form.call.td_back, <<form.call.target>>, <<FALSE>>,
                           Date_2024_03_15, Date_2024_04_19),
     history       |-> [put_original |-> EmptyHistory, call_original |-> EmptyHistory,
                        back_vol |-> EmptyHistory, adj |-> <<>>],
     adjustments   |-> <<>>]

\* lines 307-311
NewAdjustment(form, num_adjustments) ==
    Leg(form.type, "Ajuste", num_adjustments + 1, form.leg.strike, form.leg.td_front,
        form.leg.td_back, <<form.leg.target>>, <<FALSE>>, Date_2024_03_15, Date_2024_04_19)

\* What the number inputs of a leg are submitted with: a 35.50 strike bought
\* at 5.00 and sold at 2.00 with a 20 % target, the same with no target (alert
\* disabled), and the untouched inputs (every number input starts at 0.00).
LegFilled    == [strike |-> 3550, td_front |-> 200, td_back |-> 500, target |-> 20]
LegNoAlert   == [strike |-> 3550, td_front |-> 200, td_back |-> 500, target |-> 0]
LegUntouched == [strike |-> 0, td_front |-> 0, td_back |-> 0, target |-> 0]

\* the submissions of the add-position form and of the adjustment form
AddForms == {[put |-> LegFilled, call |-> LegNoAlert],
             [put |-> LegUntouched, call |-> LegUntouched]}
AdjForms == {[type |-> PutType, leg |-> LegFilled],
             [type |-> CallType, leg |-> LegUntouched]}

NoEvent == [kind |-> "none", ticker |-> <<>>, form |-> <<>>]

\* lines 162-174: the histories of one position cleared
ClearedHistory(pos_data) ==
    [pos_data EXCEPT !.history =
        [put_original |-> EmptyHistory, call_original |-> EmptyHistory,
         back_vol |-> EmptyHistory,
         adj |-> [i \in 1..Len(pos_data.history.adj) |-> EmptyHistory]]]

\* a fresh run of the script: its namespace is new
FreshRun == live_data_list' = <<>> /\ outbox' = <<>> /\ evaluated' = {}

\* st.rerun(): the run ends here and the script starts again, no widget pressed
Rerun == pc' = "top" /\ idx' = 0 /\ event' = NoEvent /\ slept' = FALSE

\* lines 152-153, as the session state the run works with
SessionAtTop(ord) ==
    IF loaded THEN ord = order ELSE ord \in RowOrders(DOMAIN db)

SessionPositions == IF loaded THEN positions ELSE db

Init ==
    /\ MARKET_DATA_TOKEN \in BOOLEAN
    /\ db = EmptyMap
    /\ loaded = FALSE
    /\ positions = EmptyMap
    /\ order = <<>>
    /\ adjusting_ticker = <<>>
    /\ pc = "top" /\ idx = 0 /\ event = NoEvent /\ slept = FALSE
    /\ live_data_list = <<>> /\ outbox = <<>>
    /\ notified = [t \in Tickers |-> <<FALSE, FALSE>>]
    /\ evaluated = {}
    /\ IdleEval /\ IdlePL /\ IdleSym

\* lines 159-181: "Limpar Histórico dos Gráficos" pressed
SidebarClear ==
    /\ pc = "top" /\ event.kind = "clear"
    /\ \E ord \in RowOrders(DOMAIN SessionPositions) :
          /\ SessionAtTop(ord)
          /\ order' = ord
    /\ loaded' = TRUE
    /\ positions' = [t \in DOMAIN SessionPositions |-> ClearedHistory(SessionPositions[t])]
    /\ db' = PersistAll(db, positions')
    /\ FreshRun /\ Rerun
    /\ UNCHANGED <<MARKET_DATA_TOKEN, adjusting_ticker, notified, evalVars, plVars, symVars>>

\* lines 202-216: the add-position form submitted with a ticker
SidebarAdd ==
    /\ pc = "top" /\ event.kind = "add" /\ event.ticker # <<>>
    /\ db' = add_position_to_db(db, event.ticker, NewPosition(event.form))
    /\ positions' = db'
    /\ order' \in RowOrders(DOMAIN db')
    /\ loaded' = TRUE
    /\ notified' = IF event.ticker \in DOMAIN db THEN notified
                      ELSE [notified EXCEPT ![event.ticker] = <<FALSE, FALSE>>]
    /\ FreshRun /\ Rerun
    /\ UNCHANGED <<MARKET_DATA_TOKEN, adjusting_ticker, evalVars, plVars, symVars>>

\* the sidebar passed with neither: on to the position loop (lines 218-221)
SidebarPass ==
    /\ pc = "top"
    /\ event.kind # "clear"
    /\ ~(event.kind = "add" /\ event.ticker # <<>>)
    /\ \E ord \in RowOrders(DOMAIN SessionPositions) :
          /\ SessionAtTop(ord)
          /\ order' = ord
    /\ loaded' = TRUE
    /\ positions' = SessionPositions
    /\ FreshRun
    /\ pc' = IF DOMAIN SessionPositions = {} THEN "form" ELSE "loop"
    /\ idx' = 1
    /\ event' = IF event.kind = "add" THEN NoEvent ELSE event
    /\ UNCHANGED <<MARKET_DATA_TOKEN, slept, db, adjusting_ticker, notified,
                   evalVars, plVars, symVars>>

\* The answers of the quote API to the two requests of one leg, one pair for
\* each way the pair can end: both prices, one of them failed (by each kind of
\* failure), both failed.
LegAnswers ==
    LET ok(p)    == [kind |-> "ok", s |-> "ok", last |-> <<p>>, status |-> 200]
        no_data  == [kind |-> "ok", s |-> "no_data", last |-> <<>>, status |-> 200]
        http_400 == [kind |-> "http_error", s |-> "", last |-> <<>>, status |-> 400]
        http_500 == [kind |-> "http_error", s |-> "", last |-> <<>>, status |-> 500]
        refused  == [kind |-> "connection_error", s |-> "", last |-> <<>>, status |-> 0]
    IN  {[front |-> ok(150),  back |-> ok(600)],
         [front |-> ok(150),  back |-> ok(150)],
         [front |-> http_400, back |-> ok(600)],
         [front |-> ok(150),  back |-> refused],
         [front |-> no_data,  back |-> http_500]}

\* line 243: the history of adjustment i, made on first use
AdjHistory(data, i) ==
    IF i <= Len(data.history.adj) THEN data.history.adj[i] ELSE EmptyHistory

LegHistory(data, k) ==
    IF k = 1 THEN data.history.put_original
    ELSE IF k = 2 THEN data.history.call_original
    ELSE AdjHistory(data, k - 2)

RECURSIVE ConcatSent(_, _)
ConcatSent(r, k) == IF k = 0 THEN <<>> ELSE ConcatSent(r, k - 1) \o r[k].sent

\* the symbols of every leg of the position
SymbolList(ticker, data) ==
    [k \in 1..Len(AllCalendars(data)) |-> Symbols(ticker, AllCalendars(data)[k])]

\* lines 225-233: the quotes of every leg of the position fetched and valued.
\* answers gives the answer per pair of symbols: within a run, legs with the
\* same symbols get the same answer from the cache of line 83.
LiveDataList(token, data, symbols, answers) ==
    [k \in 1..Len(symbols) |->
        LiveData(token, symbols[k], AllCalendars(data)[k], answers[symbols[k]])]

\* lines 237-250: every leg rendered with its live data
RenderedList(ticker, data, live, same_minute) ==
    [k \in 1..Len(live) |->
        render_calendar_block(ticker, AllCalendars(data)[k], live[k],
                              LegHistory(data, k), same_minute)]

\* the position as the renders and the volatility history (267-271) leave it
ProcessedFrom(data, r, same_minute) ==
    [sent   |-> ConcatSent(r, Len(r)),
     count  |-> [k \in 1..Len(r) |-> Len(r[k].sent)],
     data   |-> [put_original  |-> r[1].calendar_data,
                 call_original |-> r[2].calendar_data,
                 adjustments   |-> [i \in 1..(Len(r) - 2) |-> r[i + 2].calendar_data],
                 history       |->
                    [put_original  |-> r[1].calendar_history,
                     call_original |-> r[2].calendar_history,
                     back_vol      |-> AppendHistory(data.history.back_vol, same_minute),
                     adj           |-> [i \in 1..(Len(r) - 2) |-> r[i + 2].calendar_history]]]]

\* lines 235-277 for one position
Processed(ticker, data, live, same_minute) ==
    ProcessedFrom(data, RenderedList(ticker, data, live, same_minute), same_minute)

\* notified of one position after its legs were evaluated: a notification
\* sets it, an evaluation below the target clears it
NotifiedAfter(old, data, live, p) ==
    [k \in 1..Len(live) |->
        IF p.count[k] > 0 THEN TRUE
        ELSE IF FracLT(live[k].z_percent, Get(AllCalendars(data)[k].alert_target, 0))
        THEN FALSE
        ELSE old[k]]

\* lines 223-233: the first loop over the legs of the position.  An exception
\* that reaches the script runner ends the run: no persist, no sleep, no rerun.
FetchQuotes ==
    /\ pc = "loop"
    /\ LET ticker == order[idx]
           data   == positions[ticker]
       IN  \E symbols \in {SymbolList(ticker, data)} :
              \E answers \in [{symbols[k] : k \in DOMAIN symbols} -> LegAnswers] :
                 \E live \in {LiveDataList(MARKET_DATA_TOKEN, data, symbols, answers)} :
                    /\ live_data_list' = live
                    /\ pc' = IF \E k \in DOMAIN live : live[k].raised
                             THEN "aborted" ELSE "render"
    /\ outbox' = <<>>
    /\ UNCHANGED <<MARKET_DATA_TOKEN, slept, db, loaded, positions, order, adjusting_ticker,
                   idx, event, notified, evaluated, evalVars, plVars, symVars>>

\* Whether the last history entry carries the "HH:MM" of this run: never
\* after the sleep of 300 s, possibly in a run that a widget or st.rerun()
\* started.
SameMinute == IF slept THEN {FALSE} ELSE BOOLEAN

\* what the three ways through the rest of the loop body share
RenderPosition(ticker, p) ==
    /\ outbox' = p.sent
    /\ evaluated' = evaluated \cup {<<ticker, k>> : k \in 1..Len(live_data_list)}
    /\ live_data_list' = <<>>

\* lines 235-288 with neither button of this position pressed
ProcessPosition ==
    /\ pc = "render"
    /\ LET ticker == order[idx]
           data   == positions[ticker]
       IN  /\ ~(event.kind \in {"add_adj", "del"} /\ event.ticker = ticker)
           /\ \E same_minute \in SameMinute :
                 \E p \in {Processed(ticker, data, live_data_list, same_minute)} :
                    /\ RenderPosition(ticker, p)
                    /\ positions' = [positions EXCEPT ![ticker] = p.data]
                    /\ notified' = [notified EXCEPT ![ticker] =
                          NotifiedAfter(notified[ticker], data, live_data_list, p)]
    /\ idx' = idx + 1
    /\ pc' = IF idx = Len(order) THEN "form" ELSE "loop"
    /\ UNCHANGED <<MARKET_DATA_TOKEN, slept, db, loaded, order, adjusting_ticker, event,
                   evalVars, plVars, symVars>>

\* line 283: "Adicionar Ajuste" of this position pressed
ProcessPositionAddAdjustment ==
    /\ pc = "render"
    /\ LET ticker == order[idx]
           data   == positions[ticker]
       IN  /\ event.kind = "add_adj" /\ event.ticker = ticker
           /\ \E same_minute \in SameMinute :
                 \E p \in {Processed(ticker, data, live_data_list, same_minute)} :
                    /\ RenderPosition(ticker, p)
                    /\ positions' = [positions EXCEPT ![ticker] = p.data]
                    /\ notified' = [notified EXCEPT ![ticker] =
                          NotifiedAfter(notified[ticker], data, live_data_list, p)]
           /\ adjusting_ticker' = ticker
    /\ Rerun
    /\ UNCHANGED <<MARKET_DATA_TOKEN, db, loaded, order, evalVars, plVars, symVars>>

\* lines 284-288: "Excluir Posição" of this position pressed
ProcessPositionDelete ==
    /\ pc = "render"
    /\ LET ticker == order[idx]
           data   == positions[ticker]
       IN  /\ event.kind = "del" /\ event.ticker = ticker
           /\ \E same_minute \in SameMinute :
                 \E p \in {Processed(ticker, data, live_data_list, same_minute)} :
                    RenderPosition(ticker, p)
           /\ db' = delete_position_from_db(db, ticker)
           /\ positions' = db'
           /\ order' \in RowOrders(DOMAIN db')
           /\ notified' = [notified EXCEPT ![ticker] = <<FALSE, FALSE>>]
    /\ adjusting_ticker' = <<>>
    /\ Rerun
    /\ UNCHANGED <<MARKET_DATA_TOKEN, loaded, evalVars, plVars, symVars>>

\* lines 303-316: "Salvar Ajuste" submitted
AdjustmentSave ==
    /\ pc = "form" /\ adjusting_ticker # <<>> /\ event.kind = "save"
    /\ LET ticker_to_adjust   == adjusting_ticker
           position_to_update == positions[ticker_to_adjust]
           num_adjustments    == Len(position_to_update.adjustments)
           new_adj            == NewAdjustment(event.form, num_adjustments)
           updated            == [position_to_update EXCEPT
                                     !.adjustments = Append(@, new_adj)]
       IN  /\ db' = update_position_in_db(db, ticker_to_adjust, updated)
           /\ positions' = db'
           /\ order' \in RowOrders(DOMAIN db')
           /\ notified' = [notified EXCEPT ![ticker_to_adjust] = Append(@, FALSE)]
    /\ adjusting_ticker' = <<>>
    /\ Rerun
    /\ outbox' = <<>>
    /\ UNCHANGED <<MARKET_DATA_TOKEN, loaded, live_data_list, evaluated,
                   evalVars, plVars, symVars>>

\* line 318: "Cancelar Ajuste" pressed
AdjustmentCancel ==
    /\ pc = "form" /\ adjusting_ticker # <<>> /\ event.kind = "cancel"
    /\ adjusting_ticker' = <<>>
    /\ Rerun
    /\ outbox' = <<>>
    /\ UNCHANGED <<MARKET_DATA_TOKEN, db, loaded, positions, order, live_data_list,
                   evaluated, notified, evalVars, plVars, symVars>>

\* lines 290-318 with no button of the adjustment form pressed
AdjustmentPass ==
    /\ pc = "form"
    /\ ~(adjusting_ticker # <<>> /\ event.kind \in {"save", "cancel"})
    /\ pc' = "persist"
    /\ event' = NoEvent
    /\ outbox' = <<>>
    /\ UNCHANGED <<MARKET_DATA_TOKEN, slept, db, loaded, positions, order, adjusting_ticker,
                   idx, live_data_list, evaluated, notified,
                   evalVars, plVars, symVars>>

\* lines 320-323
Persist ==
    /\ pc = "persist"
    /\ db' = PersistAll(db, positions)
    /\ pc' = "sleep"
    /\ outbox' = <<>>
    /\ UNCHANGED <<MARKET_DATA_TOKEN, slept, loaded, positions, order, adjusting_ticker,
                   idx, event, live_data_list, evaluated, notified,
                   evalVars, plVars, symVars>>

\* the widget interactions that the page rendered by this run offers
Interactions ==
    {[kind |-> "clear", ticker |-> <<>>, form |-> <<>>]}
    \cup {[kind |-> "add", ticker |-> t, form |-> f] : t \in Tickers \cup {<<>>}, f \in AddForms}
    \cup {[kind |-> "add_adj", ticker |-> t, form |-> <<>>] :
             t \in {u \in DOMAIN positions : Len(positions[u].adjustments) < MaxAdj}}
    \cup {[kind |-> "del", ticker |-> t, form |-> <<>>] : t \in DOMAIN positions}
    \cup (IF adjusting_ticker # <<>>
          THEN {[kind |-> "save", ticker |-> <<>>, form |-> f] : f \in AdjForms}
               \cup {[kind |-> "cancel", ticker |-> <<>>, form |-> <<>>]}
          ELSE {})

\* lines 324-325: time.sleep(REFRESH_INTERVAL_SECONDS) and st.rerun()
TimedRerun ==
    /\ pc = "sleep"
    /\ pc' = "top" /\ idx' = 0 /\ event' = NoEvent /\ slept' = TRUE
    /\ outbox' = <<>>
    /\ UNCHANGED <<MARKET_DATA_TOKEN, db, loaded, positions, order, adjusting_ticker,
                   live_data_list, evaluated, notified, evalVars, plVars, symVars>>

\* a widget interaction during the sleep starts the next run at once; after
\* an exception the page stays and only an interaction starts a run
Interaction ==
    /\ pc \in {"sleep", "aborted"}
    /\ event' \in Interactions
    /\ pc' = "top" /\ idx' = 0 /\ slept' = FALSE
    /\ outbox' = <<>>
    /\ UNCHANGED <<MARKET_DATA_TOKEN, db, loaded, positions, order, adjusting_ticker,
                   live_data_list, evaluated, notified, evalVars, plVars, symVars>>

Next ==
    \/ SidebarClear
    \/ SidebarAdd
    \/ SidebarPass
    \/ FetchQuotes
    \/ ProcessPosition
    \/ ProcessPositionAddAdjustment
    \/ ProcessPositionDelete
    \/ AdjustmentSave
    \/ AdjustmentCancel
    \/ AdjustmentPass
    \/ Persist
    \/ TimedRerun
    \/ Interaction

Spec == Init /\ [][Next]_vars

-----------------------------------------------------------------------------
(* SpecCycle: the poll cycle alone.  The table holds a position for each   *)
(* ticker, as the forms store them, and no widget is touched: the script   *)
(* runs, sleeps and reruns.                                                *)

\* the sequences over S of length n
RECURSIVE SeqsOfLen(_, _)
SeqsOfLen(S, n) ==
    IF n = 0 THEN {<<>>}
    ELSE {Append(q, x) : q \in SeqsOfLen(S, n - 1), x \in S}

\* a position with its adjustments, as lines 206-213 and 304-313 store it
StoredPosition(form, adj_forms) ==
    [NewPosition(form) EXCEPT
        !.adjustments = [i \in 1..Len(adj_forms) |-> NewAdjustment(adj_forms[i], i - 1)]]

StoredPositions ==
    {StoredPosition(f, q) : f \in AddForms,
                            q \in UNION {SeqsOfLen(AdjForms, n) : n \in 0..MaxAdj}}

CycleInit ==
    /\ MARKET_DATA_TOKEN \in BOOLEAN
    /\ db \in [Tickers -> StoredPositions]
    /\ loaded = FALSE
    /\ positions = EmptyMap
    /\ order = <<>>
    /\ adjusting_ticker = <<>>
    /\ pc = "top" /\ idx = 0 /\ event = NoEvent /\ slept = FALSE
    /\ live_data_list = <<>> /\ outbox = <<>>
    /\ notified = [t \in Tickers |->
                      [k \in 1..Len(AllCalendars(db[t])) |-> FALSE]]
    /\ evaluated = {}
    /\ IdleEval /\ IdlePL /\ IdleSym

CycleNext ==
    \/ SidebarPass
    \/ FetchQuotes
    \/ ProcessPosition
    \/ AdjustmentPass
    \/ Persist
    \/ TimedRerun

SpecCycle == CycleInit /\ [][CycleNext]_vars

-----------------------------------------------------------------------------
(* Claims about one evaluation of a leg, checked under SpecEval.           *)

EvalTarget == Get(eval_leg.alert_target, 0)

\* the state before and after the i-th evaluation is SENT
SentBefore(i) == Get(evals[i].before, FALSE)
SentAfter(i)  == Get(evals[i].after, FALSE)
Notified(i)   == evals[i].sent # <<>>

\* the i-th evaluation has pl_percent >= target, target > 0 and finds ARMED
FireCondition(i) == evals[i].z >= EvalTarget /\ EvalTarget > 0 /\ ~SentBefore(i)

\* C1: an evaluation emits a notification, and takes the leg from ARMED to
\* SENT, if and only if pl_percent >= target, target > 0 and the leg was ARMED;
\* it then emits exactly one notification, which carries the ticker, the option
\* class, the strike, the current pl_percent and the target.
C1_FiresExactlyWhen ==
    \A i \in 1..Len(evals) :
        /\ Notified(i) <=> FireCondition(i)
        /\ (~SentBefore(i) /\ SentAfter(i)) <=> FireCondition(i)
        /\ FireCondition(i) =>
              /\ evals[i].after = <<TRUE>>
              /\ evals[i].sent = <<[ticker       |-> Str_PETR4,
                                    cal_type     |-> UpperStr(eval_leg.type),
                                    strike       |-> eval_leg.strike,
                                    z_percent    |-> Frac(evals[i].z, 1),
                                    alert_target |-> EvalTarget]>>

\* an armed leg evaluated with pl_percent equal to its target has fired
C1_Witness ==
    \E i \in 1..Len(evals) :
        Notified(i) /\ evals[i].z = EvalTarget /\ evals[i].before = <<FALSE>>

\* C2: with a target > 0, between any two notifications of the leg there is an
\* evaluation with pl_percent < target, and no evaluation that finds the leg
\* SENT notifies; an armed leg with target 20 evaluated with 10, 25, 30, 15, 22
\* notifies exactly twice, at the second and at the fifth evaluation.
C2_OneNotificationPerCycle ==
    EvalTarget > 0 =>
        /\ \A i, j \in 1..Len(evals) :
              (i < j /\ Notified(i) /\ Notified(j)) =>
                  \E k \in (i + 1)..(j - 1) : evals[k].z < EvalTarget
        /\ \A i \in 1..Len(evals) : SentBefore(i) => ~Notified(i)
        /\ (/\ EvalTarget = 20
            /\ [i \in 1..Len(evals) |-> evals[i].z] = <<10, 25, 30, 15, 22>>
            /\ ~SentBefore(1))
           => {i \in 1..Len(evals) : Notified(i)} = {2, 5}

\* the sequence 10, 25, 30, 15, 22 was evaluated on an armed leg with target 20
C2_Witness ==
    /\ EvalTarget = 20
    /\ [i \in 1..Len(evals) |-> evals[i].z] = <<10, 25, 30, 15, 22>>
    /\ ~SentBefore(1)
    /\ Notified(2) /\ Notified(5)

\* the i-th evaluation re-arms: SENT, target > 0 and pl_percent < target
Regression(i) == SentBefore(i) /\ EvalTarget > 0 /\ evals[i].z < EvalTarget

\* C3: an evaluation of a SENT leg with target > 0 and pl_percent < target
\* makes it ARMED and sends nothing; an evaluation of a SENT leg with
\* pl_percent >= target leaves it SENT; after a regression the next evaluation
\* with pl_percent >= target notifies again.
C3_RearmOnRegression ==
    \A i \in 1..Len(evals) :
        /\ Regression(i) => (evals[i].after = <<FALSE>> /\ ~Notified(i))
        /\ (SentBefore(i) /\ evals[i].z >= EvalTarget) =>
              (SentAfter(i) /\ evals[i].after = evals[i].before)
        /\ (Regression(i) /\ i < Len(evals) /\ evals[i + 1].z >= EvalTarget) =>
              Notified(i + 1)

\* a leg that had notified regressed and notified again
C3_Witness ==
    \E i, j \in 1..Len(evals) :
        i < j /\ Notified(i) /\ Regression(j) /\ j < Len(evals) /\ Notified(j + 1)

\* C4: while the target is <= 0 or absent, an evaluation leaves the alert
\* state as it was, ARMED or SENT, and sends nothing, whatever pl_percent is.
C4_DisabledTarget ==
    EvalTarget <= 0 =>
        \A i \in 1..Len(evals) :
            evals[i].after = evals[i].before /\ ~Notified(i)

\* a leg without a target, stored as SENT, was evaluated three times, once
\* with 30 %
C4_Witness ==
    /\ eval_leg.alert_target \in {<<>>, <<0>>}
    /\ Len(evals) >= 3
    /\ SentBefore(1)
    /\ \E i \in 1..Len(evals) : evals[i].z = 30

-----------------------------------------------------------------------------
(* Claims about the two pure functions, checked under SpecPL and SpecSym.  *)

\* C5: calculate_pl_values gives initial_cost = td_back - td_front and
\* absolute_pl = (now_back - now_front) - initial_cost; pl_percent is
\* absolute_pl / |initial_cost| * 100 when initial_cost # 0, and 0 when
\* initial_cost = 0, absolute_pl being reported all the same.
C5_ValuationFormula ==
    pl_out # <<>> =>
        LET r  == pl_out[1]
            ic == pl_in.td_price_back - pl_in.td_price_front
            pl == (pl_in.now_price_back - pl_in.now_price_front) - ic
        IN  /\ r.initial_cost = ic
            /\ r.absolute_pl = pl
            /\ ic # 0 => r.z_percent.n * Abs(ic) = pl * 100 * r.z_percent.d
            /\ ic = 0 => r.z_percent.n = 0

\* the ticker without its trailing digits
RECURSIVE StripTrailingDigits(_)
StripTrailingDigits(ticker) ==
    IF ticker # <<>> /\ IsDigit(ticker[Len(ticker)])
    THEN StripTrailingDigits(SubSeq(ticker, 1, Len(ticker) - 1))
    ELSE ticker

\* C7: generate_option_symbol gives the ticker without its trailing digits
\* only, the expiration as YYMMDD, 'P' or 'C', and strike * 1000 as an integer
\* of eight digits padded with zeros, for a strike between 0.01 and 99999.99.
C7_SymbolFormat ==
    (sym_out # <<>> /\ sym_in.strike > 0 /\ sym_in.strike * 10 < 100000000) =>
        sym_out = StripTrailingDigits(sym_in.ticker)
                  \o SubSeq(sym_in.exp_date, 3, 4)
                  \o SubSeq(sym_in.exp_date, 6, 7)
                  \o SubSeq(sym_in.exp_date, 9, 10)
                  \o (IF sym_in.option_type = PutType THEN <<"P">> ELSE <<"C">>)
                  \o ZeroPad(sym_in.strike * 10, 8)

-----------------------------------------------------------------------------
(* Claims about the script run, checked under SpecCycle and Spec.          *)

\* the legs of the session's positions
SessionLegs ==
    UNION {{<<t, k>> : k \in 1..Len(AllCalendars(positions[t]))} : t \in DOMAIN positions}

\* C6: in a poll cycle no failed quote (missing credential, HTTP 400, other
\* HTTP or transport failure, status not 'ok') aborts the run: a failed quote
\* is valued as price 0, every leg of the position is valued, every leg of
\* every position has been rendered when the loop is left, and the cycle
\* comes to the sleep with every position written to the table.
C6_FailuresDoNotAbort ==
    /\ pc # "aborted"
    /\ loaded => DOMAIN positions = DOMAIN db
    /\ pc = "render" =>
          /\ Len(live_data_list) = Len(AllCalendars(positions[order[idx]]))
          /\ \A k \in DOMAIN live_data_list :
                /\ ~live_data_list[k].ok_front => live_data_list[k].now_price_front = 0
                /\ ~live_data_list[k].ok_back => live_data_list[k].now_price_back = 0
    /\ pc \in {"form", "persist", "sleep"} => evaluated = SessionLegs
    /\ pc = "sleep" => db = positions

\* with no credential every quote of the cycle failed, and the cycle is at
\* its sleep with every leg of two positions rendered and written
C6_Witness ==
    /\ ~MARKET_DATA_TOKEN
    /\ pc = "sleep"
    /\ Cardinality(DOMAIN positions) = 2
    /\ evaluated = SessionLegs
    /\ \E t \in DOMAIN positions : Len(positions[t].adjustments) > 0
    /\ db = positions

\* C8: every leg that the table or the session holds has strike > 0,
\* td_price_front > 0 and td_price_back > 0.
C8_PositiveLegs ==
    \A m \in {db, positions} : \A t \in DOMAIN m :
        \A k \in 1..Len(AllCalendars(m[t])) :
            LET leg == AllCalendars(m[t])[k]
            IN  leg.strike > 0 /\ leg.td_price_front > 0 /\ leg.td_price_back > 0

Min2(a, b) == IF a < b THEN a ELSE b

\* this step renders position t
Renders(t) == pc = "render" /\ order[idx] = t

\* C9: a leg of a position that stays in the session leaves SENT only by an
\* evaluation of that leg with pl_percent < target, and no leg that has
\* notified notifies again before such an evaluation.
C9_SentUntilBelowTarget ==
    [][\A t \in DOMAIN positions \cap DOMAIN positions' :
          \A k \in 1..Min2(Len(AllCalendars(positions[t])), Len(AllCalendars(positions'[t]))) :
              LET leg == AllCalendars(positions[t])[k]
              IN  /\ (Get(leg.alert_sent, FALSE)
                      /\ ~Get(AllCalendars(positions'[t])[k].alert_sent, FALSE))
                     => (Renders(t) /\ FracLT(live_data_list[k].z_percent,
                                              Get(leg.alert_target, 0)))
                  /\ (Renders(t) /\ AlertStep(t, leg, live_data_list[k]).sent # <<>>)
                     => ~notified[t][k]]_vars

\* C10: in a poll cycle the alert state of a leg changes, and a notification
\* is sent, only if the front and the back quote of the leg were both fetched.
C10_ChangeOnlyOnFetchedQuotes ==
    [][\A t \in DOMAIN positions \cap DOMAIN positions' :
          (Renders(t) /\ ~(event.kind = "del" /\ event.ticker = t)) =>
              \A k \in DOMAIN live_data_list :
                  AllCalendars(positions'[t])[k].alert_sent
                      # AllCalendars(positions[t])[k].alert_sent
                  => (live_data_list[k].ok_front /\ live_data_list[k].ok_back)]_vars

====
